---- MODULE Spec2Model ----
(***************************************************************************)
(* numrust: random::choice (src/src/random.rs), the descriptive            *)
(* statistics mean, variance, std_dev, skew, covariance, corrcoef and the  *)
(* range generator arange (src/src/lib.rs).                                *)
(*                                                                         *)
(* A call is a small state machine: it is entered from "idle", runs its    *)
(* loop (choice only) and ends in "done" (returned) or "panic" (panic!,    *)
(* unwrap on Err, or a slice index out of bounds).                         *)
(*                                                                         *)
(* f64 is modelled as binary floating point with round-to-nearest,         *)
(* ties-to-even, and a significand of MantissaDigits bits (53 in f64); the *)
(* exponent range is not bounded (no overflow, no underflow) and the sign  *)
(* of zero is not kept.                                                    *)
(***************************************************************************)
EXTENDS Integers, Sequences, FiniteSets, TLC

\* ------------------------------------------------------------------ bounds

\* Bits of the significand of the modelled f64.
MantissaDigits == 3
\* Longest population `a` and longest weight slice `p` of a call of choice.
MaxLen == 3
\* Largest `size` of a call of choice.
MaxSize == 4
\* Longest sample handed to the statistics.
MaxN == 3
\* Largest start and stop of a call of arange.
MaxStop == 6
\* Largest step of a call of arange, either way.
MaxStep == 3

\* ------------------------------------------------------------------ f64

RECURSIVE Pow2(_)
Pow2(k) == IF k = 0 THEN 1 ELSE 2 * Pow2(k - 1)

Abs(n) == IF n < 0 THEN -n ELSE n

RECURSIVE Gcd(_, _)
Gcd(m, n) == IF n = 0 THEN m ELSE Gcd(n, m % n)

\* A finite f64 is the rational n/d in lowest terms, d > 0.
Fin(n, d) == [k |-> "fin", n |-> n, d |-> d]
NaN == [k |-> "nan", n |-> 0, d |-> 1]
\* s = 1: +inf, s = -1: -inf
Inf(s) == [k |-> "inf", n |-> s, d |-> 1]

IsNaN(u) == u.k = "nan"
IsFin(u) == u.k = "fin"
Sign(n) == IF n < 0 THEN -1 ELSE 1

Norm(n, d) ==
    LET g == Gcd(Abs(n), d)
    IN  Fin(n \div g, d \div g)

\* least i >= 0 with a * 2^i >= lo * d
RECURSIVE ShiftUp(_, _, _)
ShiftUp(a, d, lo) == IF a >= lo * d THEN 0 ELSE 1 + ShiftUp(2 * a, d, lo)

\* least j >= 0 with a < hi * d * 2^j
RECURSIVE ShiftDown(_, _, _)
ShiftDown(a, d, hi) == IF a < hi * d THEN 0 ELSE 1 + ShiftDown(a, 2 * d, hi)

\* The f64 nearest to the rational n/d (d > 0), ties to the even significand.
Round(n, d) ==
    IF n = 0 THEN Fin(0, 1)
    ELSE LET a  == Abs(n)
             up == ShiftUp(a, d, Pow2(MantissaDigits - 1))
             dn == ShiftDown(a, d, Pow2(MantissaDigits))
             aa == a * Pow2(up)
             dd == d * Pow2(dn)
             m  == aa \div dd
             r  == aa % dd
             mm == IF 2 * r > dd \/ (2 * r = dd /\ m % 2 = 1) THEN m + 1 ELSE m
         IN  Norm(Sign(n) * mm * Pow2(dn), Pow2(up))

\* `n as f64`
FromUsize(n) == Round(n, 1)

Neg(u) == [u EXCEPT !.n = -u.n]

Add(u, v) ==
    IF IsNaN(u) \/ IsNaN(v) THEN NaN
    ELSE IF u.k = "inf" /\ v.k = "inf" THEN (IF u.n = v.n THEN u ELSE NaN)
    ELSE IF u.k = "inf" THEN u
    ELSE IF v.k = "inf" THEN v
    ELSE Round(u.n * v.d + v.n * u.d, u.d * v.d)

Sub(u, v) == Add(u, Neg(v))

Mul(u, v) ==
    IF IsNaN(u) \/ IsNaN(v) THEN NaN
    ELSE IF u.k = "inf" \/ v.k = "inf"
         THEN (IF u.n = 0 \/ v.n = 0 THEN NaN ELSE Inf(Sign(u.n) * Sign(v.n)))
    ELSE Round(u.n * v.n, u.d * v.d)

Div(u, v) ==
    IF IsNaN(u) \/ IsNaN(v) THEN NaN
    ELSE IF u.k = "inf" THEN (IF v.k = "inf" THEN NaN ELSE Inf(u.n * Sign(v.n)))
    ELSE IF v.k = "inf" THEN Fin(0, 1)
    ELSE IF v.n = 0 THEN (IF u.n = 0 THEN NaN ELSE Inf(Sign(u.n)))
    ELSE Round(Sign(v.n) * u.n * v.d, u.d * Abs(v.n))

\* least t >= 0 with n * 4^t >= lo * d
RECURSIVE ShiftUp4(_, _, _)
ShiftUp4(n, d, lo) == IF n >= lo * d THEN 0 ELSE 1 + ShiftUp4(4 * n, d, lo)

\* least t >= 0 with n < hi * d * 4^t
RECURSIVE ShiftDown4(_, _, _)
ShiftDown4(n, d, hi) == IF n < hi * d THEN 0 ELSE 1 + ShiftDown4(n, 4 * d, hi)

\* f64::sqrt, correctly rounded: with q = (n/d) * 4^(up - dn) in
\* [2^(2p-2), 2^(2p)), the significand is sqrt(q) rounded to an integer.
Sqrt(u) ==
    IF IsNaN(u) THEN NaN
    ELSE IF u.k = "inf" THEN (IF u.n > 0 THEN u ELSE NaN)
    ELSE IF u.n < 0 THEN NaN
    ELSE IF u.n = 0 THEN u
    ELSE LET lo == Pow2(2 * MantissaDigits - 2)
             hi == Pow2(2 * MantissaDigits)
             up == ShiftUp4(u.n, u.d, lo)
             dn == ShiftDown4(u.n, u.d, hi)
             nn == u.n * Pow2(2 * up)
             dd == u.d * Pow2(2 * dn)
             m  == CHOOSE c \in Pow2(MantissaDigits - 1) .. Pow2(MantissaDigits) - 1 :
                       c * c * dd <= nn /\ (c + 1) * (c + 1) * dd > nn
             \* sqrt(q) > m + 1/2  iff  4q > 4m^2 + 4m + 1
             hf == (4 * m * m + 4 * m + 1) * dd
             mm == IF 4 * nn > hf \/ (4 * nn = hf /\ m % 2 = 1) THEN m + 1 ELSE m
         IN  Norm(mm * Pow2(dn), Pow2(up))

\* f64::powi(n), n >= 1: the repeated product x * x * ... * x
RECURSIVE Powi(_, _)
Powi(u, n) == IF n = 1 THEN u ELSE Mul(Powi(u, n - 1), u)

\* Iterator::sum::<f64>() of a sequence of f64, left to right from 0.0
RECURSIVE SumFrom(_, _, _)
SumFrom(s, i, acc) == IF i > Len(s) THEN acc ELSE SumFrom(s, i + 1, Add(acc, s[i]))

Sum(s) == SumFrom(s, 1, Fin(0, 1))

\* ------------------------------------------------------------------ lib.rs

\* [[f64; 2]; 2]; m[i + 1][j + 1] is the code's m[i][j]
Matrix(m00, m01, m10, m11) == << <<m00, m01>>, <<m10, m11>> >>

Zero == Fin(0, 1)
One == Fin(1, 1)

\* What a call that may panic comes to: its value, or the panic's message.
Returned(v) == [st |-> "ok", msg |-> "", val |-> v]
Panicked(m) == [st |-> "panic", msg |-> m, val |-> Matrix(Zero, Zero, Zero, Zero)]

SameLengthMsg == "x and y must have the same length"

Min(m, n) == IF m < n THEN m ELSE n

\* mean that answers 0.0 for no element
MeanGuarded(nums) ==
    IF Len(nums) = 0 THEN Zero ELSE Div(Sum(nums), FromUsize(Len(nums)))

mean(nums) ==
    LET sum == Sum(nums)
    IN  Div(sum, FromUsize(Len(nums)))

\* variance with the denominator n
VariancePopulation(nums) ==
    LET m == mean(nums)
    IN  IF Len(nums) = 0
        THEN NaN
        ELSE Div(Sum([i \in 1 .. Len(nums) |-> Powi(Sub(nums[i], m), 2)]),
                 FromUsize(Len(nums)))

variance(nums) ==
    LET m == mean(nums)
    IN  IF Len(nums) = 0
        THEN NaN
        ELSE Div(Sum([i \in 1 .. Len(nums) |-> Powi(Sub(nums[i], m), 2)]),
                 FromUsize(Len(nums) - 1))

std_dev(nums) ==
    LET var == variance(nums)
    IN  IF Len(nums) = 0 THEN NaN ELSE Sqrt(var)

skew(nums) ==
    LET m        == mean(nums)
        var      == Div(Sum([i \in 1 .. Len(nums) |-> Powi(Sub(nums[i], m), 2)]),
                        FromUsize(Len(nums)))
        sd       == Sqrt(var)
        skewness == Div(Sum([i \in 1 .. Len(nums) |-> Powi(Div(Sub(nums[i], m), sd), 3)]),
                        FromUsize(Len(nums)))
    IN  skewness

\* lines 145-158 of covariance: the matrix, once the lengths agree
CovarianceMatrix(x, y) ==
    LET n      == FromUsize(Len(x))
        x_mean == mean(x)
        y_mean == mean(y)
        zip    == 1 .. Min(Len(x), Len(y))
        c00 == Div(Sum([i \in 1 .. Len(x) |->
                          Mul(Sub(x[i], x_mean), Sub(x[i], x_mean))]),
                   Sub(n, One))
        c01 == Div(Sum([i \in zip |->
                          Mul(Sub(x[i], x_mean), Sub(y[i], y_mean))]),
                   Sub(n, One))
        c11 == Div(Sum([i \in 1 .. Len(y) |->
                          Mul(Sub(y[i], y_mean), Sub(y[i], y_mean))]),
                   Sub(n, One))
    IN  Matrix(c00, c01, c01, c11)

\* covariance that lets a longer x through
CovarianceShorterOnly(x, y) ==
    IF Len(x) < Len(y)
    THEN Panicked(SameLengthMsg)
    ELSE Returned(CovarianceMatrix(x, y))

covariance(x, y) ==
    IF Len(x) # Len(y)
    THEN Panicked(SameLengthMsg)
    ELSE Returned(CovarianceMatrix(x, y))

corrcoef(x, y) ==
    IF Len(x) # Len(y)
    THEN Panicked(SameLengthMsg)
    ELSE LET c == covariance(x, y)
         IN  IF c.st = "panic"
             THEN c
             ELSE LET cov   == c.val[1][2]
                      x_std == std_dev(x)
                      y_std == std_dev(y)
                      corr  == Div(cov, Mul(x_std, y_std))
                  IN  Returned(Matrix(One, corr, corr, One))

\* Result<Vec<f64>, ArangeError>
Ok(v) == [ok |-> TRUE, val |-> v]
Err == [ok |-> FALSE, val |-> <<>>]

\* lo..hi, the usize lo, lo + 1, ..., hi - 1 (none when lo >= hi)
RangeExclusive(lo, hi) == [i \in 1 .. (IF hi > lo THEN hi - lo ELSE 0) |-> lo + i - 1]

\* lo..=hi
RangeInclusive(lo, hi) == RangeExclusive(lo, hi + 1)

\* Iterator::rev
Rev(s) == [i \in 1 .. Len(s) |-> s[Len(s) + 1 - i]]

\* Iterator::step_by(k), k > 0: the first element, then every k-th
StepBy(s, k) == [i \in 1 .. ((Len(s) + k - 1) \div k) |-> s[(i - 1) * k + 1]]

\* .map(|x| x as f64).collect()
AsF64(s) == [i \in 1 .. Len(s) |-> FromUsize(s[i])]

\* line 201: the lower end `(stop as isize - step) as usize`, step < 0
LowerEnd(from, to, by) == to - by

arange(from, to, by) ==
    IF by = 0
    THEN Err
    ELSE IF by > 0
    THEN Ok(AsF64(StepBy(RangeExclusive(from, to), by)))
    ELSE Ok(AsF64(StepBy(Rev(RangeInclusive(LowerEnd(from, to, by), from)), -by)))

\* ------------------------------------------------------------------ random.rs

\* the messages, without the backquotes the source puts around names
SizeMsg == "size cannot be greater than the length of a if replace is false"
LengthMsg == "a must be the same length as p"
UnwrapMsg == "called Result::unwrap() on an Err value"
BoundsMsg == "index out of bounds"

\* Option<&[f64]>
None == [some |-> FALSE, w |-> <<>>]
Some(w) == [some |-> TRUE, w |-> w]

\* s[i] of a slice or Vec, i counted from 0
At(s, i) == s[i + 1]

\* the size check off by one
SizeTooLargeByTwo(rep, sz, pop) == (~rep) /\ (sz > Len(pop) + 1)

\* line 35: `!replace & (size > a.len())`
SizeTooLarge(rep, sz, pop) == (~rep) /\ (sz > Len(pop))

\* the length check that only sees too few weights
TooFewWeights(opt, pop) == opt.some /\ Len(opt.w) < Len(pop)

\* lines 39-40: `p.is_some()` and `p.unwrap().len() != a.len()`
LengthMismatch(opt, pop) == opt.some /\ Len(opt.w) # Len(pop)

\* lines 46-49: the weights the distribution is built from
Weights(opt, pop) ==
    IF opt.some
    THEN opt.w
    ELSE [i \in 1 .. Len(pop) |-> Div(One, FromUsize(Len(pop)))]

\* WeightedIndex::new: Err(NoItem) for no weight, Err(InvalidWeight) for a
\* weight that is not >= 0, Err(AllWeightsZero) for a zero total.
WeightedIndexNew(w) ==
    IF Len(w) = 0 THEN "NoItem"
    ELSE IF \E i \in 1 .. Len(w) : ~(w[i].k # "nan" /\ w[i].n >= 0) THEN "InvalidWeight"
    ELSE IF \A i \in 1 .. Len(w) : w[i].n = 0 THEN "AllWeightsZero"
    ELSE "Ok"

\* dist.sample(&mut rng): any index whose weight is positive
Sample(d) == {i \in 0 .. Len(d) - 1 : At(d, i).n > 0}

\* the element pushed is always the first of the population
FirstElement(pop, i) == At(pop, 0)

\* line 53: `a[dist.sample(&mut rng)].clone()`, i the index sampled
ElementAt(pop, i) == At(pop, i)

\* (0..a.len()).collect::<Vec<_>>()
Range(n) == [i \in 1 .. n |-> i - 1]

\* Vec::swap_remove(i), i < v.len(): the last element takes the place of v[i]
SwapRemove(v, i) ==
    LET last == Len(v)
        head == SubSeq(v, 1, last - 1)
    IN  IF i + 1 = last THEN head ELSE [head EXCEPT ![i + 1] = v[last]]

\* ------------------------------------------------------------------ state

VARIABLES
    pc,       \* idle, loop (inside the for loop of choice), done or panic
    fn,       \* the function called, empty before the call
    err,      \* the message of the panic, empty if none
    a,        \* choice: the population
    size,     \* choice: the number of elements asked for
    replace,  \* choice: draw with replacement
    p,        \* choice: Option<&[f64]>, the weights
    dist,     \* choice: the weights of the WeightedIndex
    indices,  \* choice, without replacement: the Vec of population indices
    result,   \* choice: the Vec returned
    picked,   \* choice: the population index of each element of result
    draws,    \* choice: the calls of dist.sample made so far
    x,        \* statistics: first sample
    y,        \* statistics: second sample (covariance, corrcoef)
    ret,      \* statistics: the f64 returned
    mat,      \* statistics: the [[f64; 2]; 2] returned
    start,    \* arange: first value
    stop,     \* arange: end of the range
    step,     \* arange: distance of two values
    res       \* arange: the Result returned

choiceVars == <<a, size, replace, p, dist, indices, result, picked, draws>>
statVars == <<x, y, ret, mat>>
arangeVars == <<start, stop, step, res>>
vars == <<pc, fn, err, a, size, replace, p, dist, indices, result, picked, draws,
          x, y, ret, mat, start, stop, step, res>>

\* Elements of a population.
Elems == {1, 2}
\* Weights a caller passes.
WeightVals == {Round(-1, 2), Zero, Round(1, 4), Round(1, 2)}
\* Values of a sample.
Values == {Zero, One, Round(3, 1)}

SeqsUpTo(S, n) == UNION {[1 .. m -> S] : m \in 0 .. n}

Populations == SeqsUpTo(Elems, MaxLen)
WeightOptions == {None} \cup {Some(w) : w \in SeqsUpTo(WeightVals, MaxLen)}
Samples == SeqsUpTo(Values, MaxN)

ZeroMatrix == Matrix(Zero, Zero, Zero, Zero)

Init ==
    /\ pc = "idle"
    /\ fn = ""
    /\ err = ""
    /\ a = <<>>
    /\ size = 0
    /\ replace = FALSE
    /\ p = None
    /\ dist = <<>>
    /\ indices = <<>>
    /\ result = <<>>
    /\ picked = <<>>
    /\ draws = 0
    /\ x = <<>>
    /\ y = <<>>
    /\ ret = Zero
    /\ mat = ZeroMatrix
    /\ start = 0
    /\ stop = 0
    /\ step = 0
    /\ res = Err

\* ------------------------------------------------------------------ choice

\* choice(a, size, replace, p), lines 34-50 and 56: the two checks, the
\* distribution, the empty result and (without replacement) the index Vec.
Choice(pop, sz, rep, opt) ==
    /\ fn' = "choice"
    /\ a' = pop
    /\ size' = sz
    /\ replace' = rep
    /\ p' = opt
    /\ result' = <<>>
    /\ picked' = <<>>
    /\ draws' = 0
    /\ IF SizeTooLarge(rep, sz, pop)
       THEN /\ pc' = "panic"
            /\ err' = SizeMsg
            /\ UNCHANGED <<dist, indices>>
       ELSE IF LengthMismatch(opt, pop)
       THEN /\ pc' = "panic"
            /\ err' = LengthMsg
            /\ UNCHANGED <<dist, indices>>
       ELSE IF WeightedIndexNew(Weights(opt, pop)) # "Ok"
       THEN /\ pc' = "panic"
            /\ err' = UnwrapMsg
            /\ UNCHANGED <<dist, indices>>
       ELSE /\ pc' = "loop"
            /\ err' = ""
            /\ dist' = Weights(opt, pop)
            /\ indices' = IF rep THEN <<>> ELSE Range(Len(pop))
    /\ UNCHANGED statVars
    /\ UNCHANGED arangeVars

CallChoice ==
    /\ pc = "idle"
    /\ \E pop \in Populations, sz \in 0 .. MaxSize, rep \in BOOLEAN, opt \in WeightOptions :
          Choice(pop, sz, rep, opt)

\* lines 52-54: one iteration of the loop with replacement
DrawWithReplacement ==
    /\ pc = "loop"
    /\ replace
    /\ draws < size
    /\ \E i \in Sample(dist) :
          /\ draws' = draws + 1
          /\ result' = Append(result, ElementAt(a, i))
          /\ picked' = Append(picked, i)
    /\ UNCHANGED <<pc, fn, err, a, size, replace, p, dist, indices>>
    /\ UNCHANGED statVars
    /\ UNCHANGED arangeVars

\* lines 57-63: one iteration of the loop without replacement; `indices[i]`
\* panics when i is not an index of the Vec
DrawWithoutReplacement ==
    /\ pc = "loop"
    /\ ~replace
    /\ draws < size
    /\ \E i \in Sample(dist) :
          /\ draws' = draws + 1
          /\ IF i >= Len(indices)
             THEN /\ pc' = "panic"
                  /\ err' = BoundsMsg
                  /\ UNCHANGED <<result, picked, indices>>
             ELSE /\ result' = Append(result, At(a, At(indices, i)))
                  /\ picked' = Append(picked, At(indices, i))
                  /\ indices' = SwapRemove(indices, i)
                  /\ UNCHANGED <<pc, err>>
    /\ UNCHANGED <<fn, a, size, replace, p, dist>>
    /\ UNCHANGED statVars
    /\ UNCHANGED arangeVars

\* line 65: the loop is over, result is returned
ChoiceReturn ==
    /\ pc = "loop"
    /\ draws = size
    /\ pc' = "done"
    /\ UNCHANGED <<fn, err>>
    /\ UNCHANGED choiceVars
    /\ UNCHANGED statVars
    /\ UNCHANGED arangeVars

Next == CallChoice \/ DrawWithReplacement \/ DrawWithoutReplacement \/ ChoiceReturn

Spec == Init /\ [][Next]_vars

\* ------------------------------------------------------------------ statistics

\* a call of a function of one sample that returns an f64
CallScalar(name, nums, v) ==
    /\ pc' = "done"
    /\ fn' = name
    /\ err' = ""
    /\ x' = nums
    /\ ret' = v
    /\ UNCHANGED <<y, mat>>
    /\ UNCHANGED choiceVars
    /\ UNCHANGED arangeVars

\* a call of a function of two samples that returns a matrix or panics
CallMatrix(name, xs, ys, out) ==
    /\ pc' = IF out.st = "ok" THEN "done" ELSE "panic"
    /\ fn' = name
    /\ err' = out.msg
    /\ x' = xs
    /\ y' = ys
    /\ mat' = out.val
    /\ UNCHANGED ret
    /\ UNCHANGED choiceVars
    /\ UNCHANGED arangeVars

CallMean ==
    /\ pc = "idle"
    /\ \E nums \in Samples : CallScalar("mean", nums, mean(nums))

CallVariance ==
    /\ pc = "idle"
    /\ \E nums \in Samples : CallScalar("variance", nums, variance(nums))

CallStdDev ==
    /\ pc = "idle"
    /\ \E nums \in Samples : CallScalar("std_dev", nums, std_dev(nums))

CallSkew ==
    /\ pc = "idle"
    /\ \E nums \in Samples : CallScalar("skew", nums, skew(nums))

CallCovariance ==
    /\ pc = "idle"
    /\ \E xs \in Samples, ys \in Samples :
          CallMatrix("covariance", xs, ys, covariance(xs, ys))

CallCorrcoef ==
    /\ pc = "idle"
    /\ \E xs \in Samples, ys \in Samples :
          CallMatrix("corrcoef", xs, ys, corrcoef(xs, ys))

NextStats ==
    CallMean \/ CallVariance \/ CallStdDev \/ CallSkew \/ CallCovariance \/ CallCorrcoef

SpecStats == Init /\ [][NextStats]_vars

\* ------------------------------------------------------------------ arange

\* arange(start, stop, step), lines 191-209
CallArange ==
    /\ pc = "idle"
    /\ \E from \in 0 .. MaxStop, to \in 0 .. MaxStop, by \in -MaxStep .. MaxStep :
          /\ fn' = "arange"
          /\ start' = from
          /\ stop' = to
          /\ step' = by
          /\ res' = arange(from, to, by)
    /\ pc' = "done"
    /\ UNCHANGED err
    /\ UNCHANGED choiceVars
    /\ UNCHANGED statVars

NextArange == CallArange

SpecArange == Init /\ [][NextArange]_vars

\* ------------------------------------------------------------------ claims

\* f64 `==`: a NaN equals nothing
FloatEq(u, v) == ~IsNaN(u) /\ ~IsNaN(v) /\ u = v

\* all the elements of the sample are equal
Constant(s) == \A i, j \in 1 .. Len(s) : s[i] = s[j]

\* no population index occurs twice in s
Distinct(s) == \A m, n \in 1 .. Len(s) : m # n => s[m] # s[n]

InChoice == fn = "choice"

\* C1: a call choice(a, size, false, None) with size <= a.len() never panics,
\* whatever the draws, and what it returns has exactly size elements, each the
\* element of a at an index of a, no index used twice. Stated for the
\* populations that have an element (for the empty one WeightedIndex::new
\* has no item to build a distribution from, and the call panics as well).
C1_UniformWithoutReplacement ==
    (InChoice /\ ~replace /\ ~p.some /\ size <= Len(a) /\ Len(a) > 0) =>
        /\ pc # "panic"
        /\ pc = "done" =>
              /\ Len(result) = size
              /\ \A n \in 1 .. Len(result) :
                    /\ picked[n] \in 0 .. Len(a) - 1
                    /\ result[n] = At(a, picked[n])
              /\ Distinct(picked)

\* C2: choice fails only before its first draw: a call that has panicked has
\* made no draw and pushed no element, and a call that has returned gives
\* exactly size elements.
C2_FailureOnlyBeforeFirstDraw ==
    InChoice =>
        /\ pc = "panic" => (draws = 0 /\ Len(result) = 0)
        /\ pc = "done" => Len(result) = size

\* C3: without replacement a size above the length of the population always
\* ends in the size panic, with or without weights, before any draw.
C3_SizeAboveLengthPanics ==
    (InChoice /\ ~replace /\ size > Len(a)) =>
        /\ pc = "panic"
        /\ err = SizeMsg
        /\ draws = 0
        /\ result = <<>>

C3_Witness ==
    /\ InChoice /\ ~replace /\ size = Len(a) + 1 /\ Len(a) > 0
    /\ p.some /\ Len(p.w) = Len(a)
    /\ pc = "panic" /\ err = SizeMsg

\* C4: weights whose length is not the length of the population always end in
\* a panic for invalid input, in both modes and for every size, before any
\* draw: the length panic, unless the size check of the without-replacement
\* mode came first.
C4_WeightLengthMismatchPanics ==
    (InChoice /\ p.some /\ Len(p.w) # Len(a)) =>
        /\ pc = "panic"
        /\ err = (IF ~replace /\ size > Len(a) THEN SizeMsg ELSE LengthMsg)
        /\ draws = 0
        /\ result = <<>>

C4_Witness ==
    /\ InChoice /\ replace /\ size > 0
    /\ p.some /\ Len(p.w) > Len(a) /\ Len(a) > 0
    /\ \A i \in 1 .. Len(p.w) : p.w[i].n > 0
    /\ pc = "panic" /\ err = LengthMsg

\* C5: a call with replacement that has passed the checks and built its
\* distribution never panics; its n-th element is a[i] for the index i of the
\* n-th draw; the distribution is at every draw the one built from the weights
\* passed (or the uniform ones); and it returns exactly size elements.
C5_WithReplacement ==
    (InChoice /\ replace /\ (pc \in {"loop", "done"} \/ draws > 0)) =>
        /\ pc # "panic"
        /\ dist = (IF p.some THEN p.w ELSE [i \in 1 .. Len(a) |-> Div(One, FromUsize(Len(a)))])
        /\ Len(result) = draws
        /\ Len(picked) = draws
        /\ \A n \in 1 .. Len(result) : result[n] = At(a, picked[n])
        /\ pc = "done" => Len(result) = size

C5_Witness ==
    /\ InChoice /\ replace /\ pc = "done"
    /\ size > Len(a)
    /\ Len(result) = size
    /\ \E m, n \in 1 .. Len(picked) : m # n /\ picked[m] = picked[n]
    /\ \E m, n \in 1 .. Len(result) : result[m] # result[n]

\* C6: covariance and corrcoef panic with the same-length message for every
\* pair of samples of different lengths and return a matrix for every pair of
\* samples of one length.
C6_UnequalLengthsPanic ==
    (fn \in {"covariance", "corrcoef"}) =>
        /\ Len(x) # Len(y) => (pc = "panic" /\ err = SameLengthMsg)
        /\ Len(x) = Len(y) => (pc = "done" /\ err = "")

C6_Witness ==
    /\ fn = "covariance"
    /\ Len(x) > Len(y) /\ Len(y) > 0
    /\ pc = "panic" /\ err = SameLengthMsg

\* C7: mean of no element is NaN, variance of no element or of one element is
\* NaN, and none of these calls panics.
C7_UndefinedMoments ==
    /\ (fn = "mean" /\ Len(x) = 0) => (pc = "done" /\ IsNaN(ret))
    /\ (fn = "variance" /\ Len(x) <= 1) => (pc = "done" /\ IsNaN(ret))

C7_Witness ==
    /\ fn = "variance" /\ Len(x) = 1 /\ x[1] # Zero
    /\ pc = "done" /\ IsNaN(ret)

\* C8: for samples x, y of one length >= 2 the diagonal of covariance(x, y) is
\* variance(x), variance(y) (f64 equality).
C8_DiagonalIsVariance ==
    (fn = "covariance" /\ Len(x) = Len(y) /\ Len(x) >= 2) =>
        /\ pc = "done"
        /\ FloatEq(mat[1][1], variance(x))
        /\ FloatEq(mat[2][2], variance(y))

C8_Witness ==
    /\ fn = "covariance" /\ pc = "done"
    /\ Len(x) = MaxN /\ Len(y) = MaxN
    /\ ~Constant(x) /\ ~Constant(y) /\ x # y
    /\ mat[1][1] = variance(x) /\ mat[1][1].n > 0
    /\ mat[2][2] = variance(y) /\ mat[2][2] # mat[1][1]

\* C9: for samples x, y of one length, one of them constant, corrcoef(x, y)
\* returns, with NaN off the diagonal and 1.0 on it.
C9_ZeroVarianceGivesNaN ==
    (fn = "corrcoef" /\ Len(x) = Len(y) /\ (Constant(x) \/ Constant(y))) =>
        /\ pc = "done"
        /\ IsNaN(mat[1][2])
        /\ IsNaN(mat[2][1])
        /\ mat[1][1] = One
        /\ mat[2][2] = One

\* C10: skew of no element and of a constant sample is NaN, and the call does
\* not panic.
C10_SkewOfConstantIsNaN ==
    (fn = "skew" /\ Constant(x)) => (pc = "done" /\ IsNaN(ret))

\* the value start + k * step lies between start (inclusive) and stop (exclusive)
InRange(v) == IF step > 0 THEN v < stop ELSE v > stop

\* C11: arange with a step other than 0 returns start, start + step,
\* start + 2 * step, ... as long as the value is before stop (below it for a
\* step > 0, above it for a step < 0), in that order and no value more or
\* less; with the step 0 it returns an error.
C11_ArangeValues ==
    (fn = "arange") =>
        /\ step = 0 => ~res.ok
        /\ step # 0 =>
              /\ res.ok
              /\ \A i \in 1 .. Len(res.val) :
                    /\ res.val[i] = Fin(start + (i - 1) * step, 1)
                    /\ InRange(start + (i - 1) * step)
              /\ ~InRange(start + Len(res.val) * step)

\* the exact sum of the finite f64 of s, from position i on, as <<numerator, denominator>>
RECURSIVE ExactSumFrom(_, _)
ExactSumFrom(s, i) ==
    IF i > Len(s)
    THEN <<0, 1>>
    ELSE LET r == ExactSumFrom(s, i + 1)
         IN  <<s[i].n * r[2] + r[1] * s[i].d, s[i].d * r[2]>>

\* the probabilities of s sum to 1, up to one unit in the last place for each
SumsToOne(s) ==
    LET r == ExactSumFrom(s, 1)
    IN  Abs(r[1] - r[2]) * Pow2(MantissaDigits) <= Len(s) * r[2]

\* the weights a call starts from
InitialWeights == IF p.some THEN p.w ELSE [i \in 1 .. Len(a) |-> Div(One, FromUsize(Len(a)))]

\* C12: in a call without replacement that starts from probabilities summing
\* to 1, each draw is made from a distribution over the surviving indices:
\* before every draw the distribution has one probability for each index
\* left in indices, and these sum to 1 (the drawn index removed, the others
\* divided by 1 - p[i]).
C12_DistributionOverSurvivors ==
    (InChoice /\ ~replace /\ pc = "loop" /\ draws < size /\ size <= Len(a)
        /\ SumsToOne(InitialWeights)) =>
        /\ Len(dist) = Len(indices)
        /\ SumsToOne(dist)

\* the number of positive weights of w
PositiveCount(w) == Cardinality({i \in 1 .. Len(w) : w[i].n > 0})

\* C13: with draws that never return an index of weight 0, no element whose
\* weight in p is 0 is pushed by a call without replacement. Stated for the
\* sizes up to the number of positive weights, which leave a positive weight
\* to draw from at every draw.
C13_ZeroWeightNeverReturned ==
    (InChoice /\ ~replace /\ p.some /\ Len(p.w) = Len(a)
        /\ size <= Len(a) /\ size <= PositiveCount(p.w)) =>
        \A n \in 1 .. Len(picked) : At(p.w, picked[n]).n > 0

====
